---- MODULE Spec2Model ----
(***************************************************************************)
(* Model of the PKI management console (src/streamlit/app.py): the issue   *)
(* form, issue_certificate, list_certificates, the Revoke page and         *)
(* revoke_certificate, over the certs directory and the step CLI.          *)
(*                                                                         *)
(* A name is a sequence of one-character strings.  The certs directory is  *)
(* a function from the names of the directories that exist to their        *)
(* contents, a function from file name to file content.  A handler is one  *)
(* action; the outcomes of the step CLI and of the file system calls the   *)
(* code guards with try/except are chosen by the environment.  Exceptions   *)
(* the code does not catch (step binary missing, mkdir or rmtree raising)  *)
(* end the script run without a return value and are not modelled.         *)
(***************************************************************************)
EXTENDS Integers, Sequences, FiniteSets, TLC

\* ----------------------------------------------------------------- bounds
\* Longest name enumerated character by character on the issue form.
MaxLen == 2
\* Number of certificates the CA signs in one behaviour.
MaxSerial == 3

\* ------------------------------------------------------------- characters
Letters == {"a"}
Digits == {"1"}
\* The characters a user types in the bounded form check.
Chars == Letters \cup Digits \cup {"-", "_", ".", "/"}
\* str.isalnum: non-empty and every character a letter or a number.
IsAlnum(s) == Len(s) > 0 /\ \A i \in 1..Len(s) : s[i] \in Letters \cup Digits
\* str.replace(c, ""): every occurrence of the character removed.
Replace(s, c) == SelectSeq(s, LAMBDA x : x # c)
\* str.strip(): leading and trailing whitespace removed.
Whitespace == {" ", "\n", "\r", "\t"}
RECURSIVE LStrip(_)
LStrip(s) == IF s # <<>> /\ Head(s) \in Whitespace THEN LStrip(Tail(s)) ELSE s
RECURSIVE RStrip(_)
RStrip(s) ==
    IF s # <<>> /\ s[Len(s)] \in Whitespace THEN RStrip(SubSeq(s, 1, Len(s) - 1)) ELSE s
Strip(s) == LStrip(RStrip(s))
\* str.lower() on the characters that occur in the modelled stderr texts.
LowerChar(c) ==
    CASE c = "A" -> "a" [] c = "L" -> "l" [] c = "R" -> "r" [] c = "E" -> "e"
      [] c = "D" -> "d" [] c = "Y" -> "y" [] c = "V" -> "v" [] c = "O" -> "o"
      [] c = "K" -> "k" [] OTHER -> c
Lower(s) == [i \in 1..Len(s) |-> LowerChar(s[i])]
\* `needle in hay` for strings: needle occurs as a contiguous run.
Contains(hay, needle) ==
    \E i \in 0..(Len(hay) - Len(needle)) :
        SubSeq(hay, i + 1, i + Len(needle)) = needle

\* ------------------------------------------------------------------ names
Suffix == <<".", "r", "e", "v", "o", "k", "e", "d">>
CrtExt == <<".", "c", "r", "t">>
KeyExt == <<".", "k", "e", "y">>
\* cert_dir / f"{common_name}.crt" and f"{common_name}.key": the file names.
CertFile(cn) == cn \o CrtExt
KeyFile(cn) == cn \o KeyExt
\* CERTS_DIR / f"{common_name}.revoked"
RevokedDir(cn) == cn \o Suffix

RECURSIVE SeqsUpTo(_)
SeqsUpTo(n) ==
    IF n = 0 THEN {<<>>}
    ELSE LET shorter == SeqsUpTo(n - 1)
         IN  shorter \cup {Append(s, c) : s \in {t \in shorter : Len(t) = n - 1}, c \in Chars}
\* Every name of at most MaxLen characters.
AllNames == SeqsUpTo(MaxLen)
\* The names typed in the file-system runs: a device, and a device whose
\* name is the first one's followed by ".revoked" (the form accepts it).
SmallNames == {<<"a">>, RevokedDir(<<"a">>)}

VARIABLES
    fs,          \* CERTS_DIR: existing directory name -> (file name -> content)
    nextSerial,  \* the serial number the CA gives the next certificate
    caRevoked,   \* serial numbers the CA has revoked
    typed,       \* the names the users type into the issue form
    last,        \* the latest handler run: arguments, commands, result
    hist         \* per common name: what has happened to it so far

vars == <<fs, nextSerial, caRevoked, typed, last, hist>>

Serials == 1..MaxSerial
NoFiles == [f \in {} |-> 0]
NoCall == [op |-> "none", cn |-> <<>>, serial |-> 0, called |-> FALSE, ok |-> FALSE,
           msg |-> "", cmds |-> <<>>, pre |-> [d \in {} |-> NoFiles],
           rename |-> "none", files |-> {}]
NoHist == [issuedOk |-> {}, certs |-> {}, revokedSince |-> {}, renamedSince |-> {}]

\* ------------------------------------------------------------ file system
\* Path.mkdir(parents=True, exist_ok=True)
Mkdir(f, d) ==
    IF d \in DOMAIN f THEN f
    ELSE [x \in DOMAIN f \cup {d} |-> IF x = d THEN NoFiles ELSE f[x]]
\* A file written (created or overwritten) in an existing directory.
WriteFile(f, d, name, content) ==
    [f EXCEPT ![d] = [n \in DOMAIN f[d] \cup {name} |->
                         IF n = name THEN content ELSE f[d][n]]]
\* Path.exists() of a file in a directory of CERTS_DIR.
FileExists(f, d, name) == d \in DOMAIN f /\ name \in DOMAIN f[d]
\* shutil.rmtree
RmTree(f, d) == [x \in DOMAIN f \ {d} |-> f[x]]
\* Path.rename of a directory onto a name that does not exist.
RenameCopies(f, src, dst) ==
    [x \in DOMAIN f \cup {dst} |-> IF x = dst THEN f[src] ELSE f[x]]
Rename(f, src, dst) ==
    [x \in (DOMAIN f \ {src}) \cup {dst} |-> IF x = dst THEN f[src] ELSE f[x]]

\* ------------------------------------------------------ issue_certificate
\* The content of the CA bundle file.
CaBundle == <<"ca", 0>>
\* `step ca certificate cn cert_file key_file --force` exiting 0: the CA
\* signs serial s and the CLI writes the certificate and the key.
StepWritesSwapped(f, cn, s) ==
    WriteFile(WriteFile(f, cn, CertFile(cn), <<"key", s>>), cn, KeyFile(cn), <<"cert", s>>)
StepWrites(f, cn, s) ==
    WriteFile(WriteFile(f, cn, CertFile(cn), <<"cert", s>>), cn, KeyFile(cn), <<"key", s>>)
\* A step CLI invocation as the program sees it.
Cmd(name, subject, token, rc, stdout, stderr, printed) ==
    [cmd |-> name, subject |-> subject, token |-> token, rc |-> rc,
     stdout |-> stdout, stderr |-> stderr, printed |-> printed]
\* issue_certificate(common_name, ...): rc is the exit code of the CLI,
\* bundleOk whether the three files can be read back.
IssueCertificate(f, cn, s, rc, bundleOk) ==
    LET made == Mkdir(f, cn)
        cmd == Cmd("certificate", cn, <<>>, rc, <<>>, <<>>, <<>>)
    IN  IF rc = 0
        THEN LET written == StepWrites(made, cn, s)
             IN  IF bundleOk
                 THEN [fs |-> written, ok |-> TRUE, msg |-> "Certificate issued successfully",
                       cmds |-> <<cmd>>,
                       files |-> {<<"cert", written[cn][CertFile(cn)]>>,
                                  <<"key", written[cn][KeyFile(cn)]>>,
                                  <<"ca", CaBundle>>}]
                 ELSE [fs |-> written, ok |-> FALSE, msg |-> "Error reading files: ",
                       cmds |-> <<cmd>>, files |-> {}]
        ELSE [fs |-> made, ok |-> FALSE, msg |-> "Error: ", cmds |-> <<cmd>>, files |-> {}]

\* ------------------------------------------------------ list_certificates
\* The entries of list_certificates(); the order (sorted by cn) is not kept.
\* The step CLI writes certificates that parse, so no entry has an error status.
Entry(f, d, exp) ==
    LET s == f[d][CertFile(d)][2]
    IN  [cn |-> d, serial |-> s, status |-> IF s \in exp THEN "Expired" ELSE "Active"]
ListAlsoRevoked(f, exp) ==
    {Entry(f, d, exp) : d \in {x \in DOMAIN f : FileExists(f, x, CertFile(x))}}
    \cup {[cn |-> d, serial |-> f[RevokedDir(d)][CertFile(d)][2], status |-> "Active"] :
            d \in {x \in typed : FileExists(f, RevokedDir(x), CertFile(x))}}
ListCertificates(f, exp) ==
    {Entry(f, d, exp) : d \in {x \in DOMAIN f : FileExists(f, x, CertFile(x))}}
\* active_certs of the Revoke page
ActiveCerts(f, exp) == {c \in ListCertificates(f, exp) : c.status = "Active"}

\* ----------------------------------------------------- revoke_certificate
Phrase == <<"a", "l", "r", "e", "a", "d", "y", " ", "r", "e", "v", "o", "k", "e", "d">>
\* already_revoked = "already revoked" in result.stderr.lower()
AlreadyRevokedCaseSensitive(stderr) == Contains(stderr, Phrase)
AlreadyRevoked(stderr) == Contains(Lower(stderr), Phrase)
\* token = token_result.stdout.strip()
TokenUnstripped(stdout) == stdout
Token(stdout) == Strip(stdout)
\* The local clean-up after a revocation: a stale cn.revoked is removed and
\* the directory renamed; a failing rename is swallowed.
CleanUp(f, cn, renameOk) ==
    LET target == RevokedDir(cn)
        cleared == IF target \in DOMAIN f THEN RmTree(f, target) ELSE f
    IN  IF renameOk /\ cn \in DOMAIN cleared THEN Rename(cleared, cn, target) ELSE cleared
\* revoke_certificate(common_name, serial).  tok and rev are the two CLI
\* invocations as the environment answers them, renameOk the rename's outcome.
RevokeCleansFirst(f, cn, serial, tok, rev, renameOk) ==
    IF ~FileExists(f, cn, CertFile(cn))
    THEN [fs |-> f, ok |-> FALSE, msg |-> "Certificate file not found",
          cmds |-> <<>>, rename |-> "none"]
    ELSE LET tokenCmd == Cmd("token", serial, <<>>, tok.rc, tok.stdout, tok.stderr, tok.printed)
             stale == IF RevokedDir(cn) \in DOMAIN f THEN RmTree(f, RevokedDir(cn)) ELSE f
         IN  IF tok.rc # 0
             THEN [fs |-> stale, ok |-> FALSE, msg |-> "Failed to generate revocation token: ",
                   cmds |-> <<tokenCmd>>, rename |-> "none"]
             ELSE LET revokeCmd == Cmd("revoke", serial, Token(tok.stdout), rev.rc,
                                       <<>>, rev.stderr, <<>>)
                      already == AlreadyRevoked(rev.stderr)
                  IN  IF rev.rc = 0 \/ already
                      THEN [fs |-> CleanUp(stale, cn, renameOk), ok |-> TRUE,
                            msg |-> IF already
                                    THEN "Certificate was already revoked. Cleaned up local files."
                                    ELSE "Certificate revoked successfully",
                            cmds |-> <<tokenCmd, revokeCmd>>,
                            rename |-> IF renameOk THEN "ok" ELSE "failed"]
                      ELSE [fs |-> stale, ok |-> FALSE, msg |-> "Error: ",
                            cmds |-> <<tokenCmd, revokeCmd>>, rename |-> "none"]
RevokeCertificate(f, cn, serial, tok, rev, renameOk) ==
    IF ~FileExists(f, cn, CertFile(cn))
    THEN [fs |-> f, ok |-> FALSE, msg |-> "Certificate file not found",
          cmds |-> <<>>, rename |-> "none"]
    ELSE LET tokenCmd == Cmd("token", serial, <<>>, tok.rc, tok.stdout, tok.stderr, tok.printed)
         IN  IF tok.rc # 0
             THEN [fs |-> f, ok |-> FALSE, msg |-> "Failed to generate revocation token: ",
                   cmds |-> <<tokenCmd>>, rename |-> "none"]
             ELSE LET revokeCmd == Cmd("revoke", serial, Token(tok.stdout), rev.rc,
                                       <<>>, rev.stderr, <<>>)
                      already == AlreadyRevoked(rev.stderr)
                  IN  IF rev.rc = 0 \/ already
                      THEN [fs |-> CleanUp(f, cn, renameOk), ok |-> TRUE,
                            msg |-> IF already
                                    THEN "Certificate was already revoked. Cleaned up local files."
                                    ELSE "Certificate revoked successfully",
                            cmds |-> <<tokenCmd, revokeCmd>>,
                            rename |-> IF renameOk THEN "ok" ELSE "failed"]
                      ELSE [fs |-> f, ok |-> FALSE, msg |-> "Error: ",
                            cmds |-> <<tokenCmd, revokeCmd>>, rename |-> "none"]

\* ------------------------------------------------------------ environment
TokenText == <<"t", "k">>
\* `step ca token SERIAL --revoke`: exit 0 prints the token and a line end.
TokenOutcomes ==
    {[rc |-> 0, stdout |-> TokenText \o <<"\n">>, stderr |-> <<>>, printed |-> TokenText],
     [rc |-> 1, stdout |-> <<>>, stderr |-> <<"d", "e", "n", "i", "e", "d">>, printed |-> <<>>]}
ErrRefused == <<"r", "e", "f", "u", "s", "e", "d">>
ErrAlready == <<"i", "s", " ", "a", "l", "r", "e", "a", "d", "y", " ",
                "r", "e", "v", "o", "k", "e", "d", "\n">>
ErrAlreadyCap == <<"A", "l", "r", "e", "a", "d", "y", " ", "R", "e", "v", "o", "k", "e", "d">>
\* `step ca revoke SERIAL --token T`: a serial the CA has not revoked is
\* revoked (exit 0) or the call fails; a revoked one is reported as such.
RevokeOutcomes(serial) ==
    IF serial \in caRevoked
    THEN {[rc |-> 1, stderr |-> e] : e \in {ErrAlready, ErrAlreadyCap, ErrRefused}}
    ELSE {[rc |-> 0, stderr |-> <<>>]} \cup
         {[rc |-> 1, stderr |-> e] : e \in {ErrRefused}}

\* ---------------------------------------------------------------- actions
\* The checks of the issue form's submit handler.
FormCheckNonEmptyOnly(name) == IF name = <<>> THEN "empty" ELSE "ok"
FormCheck(name) ==
    IF name = <<>> THEN "empty"
    ELSE IF ~IsAlnum(Replace(Replace(Replace(name, "-"), "_"), ".")) THEN "bad"
    ELSE "ok"

Init ==
    /\ fs = [d \in {} |-> NoFiles]
    /\ nextSerial = 1
    /\ caRevoked = {}
    /\ typed = SmallNames
    /\ last = NoCall
    /\ hist = NoHist

\* One name of the bounded alphabet is typed throughout the behaviour.
InitForm ==
    /\ fs = [d \in {} |-> NoFiles]
    /\ nextSerial = 1
    /\ caRevoked = {}
    /\ typed \in {{n} : n \in AllNames}
    /\ last = NoCall
    /\ hist = NoHist

\* "Generate Certificate" submitted with the common name `name`.
IssueForm(name, rc, bundleOk) ==
    /\ name \in typed
    /\ UNCHANGED <<caRevoked, typed>>
    /\ IF FormCheck(name) # "ok"
       THEN /\ last' = [NoCall EXCEPT !.op = "issue_form", !.cn = name, !.pre = fs,
                            !.msg = IF FormCheck(name) = "empty"
                                    THEN "Please enter a site/device name"
                                    ELSE "Name should only contain letters, numbers, hyphens, underscores, and dots"]
            /\ UNCHANGED <<fs, nextSerial, hist>>
       ELSE /\ rc = 0 => nextSerial <= MaxSerial
            /\ LET r == IssueCertificate(fs, name, nextSerial, rc, bundleOk)
               IN  /\ fs' = r.fs
                   /\ nextSerial' = IF rc = 0 THEN nextSerial + 1 ELSE nextSerial
                   /\ last' = [NoCall EXCEPT !.op = "issue_form", !.cn = name, !.pre = fs,
                                   !.serial = IF rc = 0 THEN nextSerial ELSE 0,
                                   !.called = TRUE, !.ok = r.ok, !.msg = r.msg,
                                   !.cmds = r.cmds, !.files = r.files]
                   /\ hist' = [hist EXCEPT
                          !.issuedOk = IF r.ok THEN @ \cup {name} ELSE @,
                          !.certs = IF rc = 0 THEN @ \cup {<<name, nextSerial>>} ELSE @,
                          !.revokedSince = IF r.ok THEN @ \ {name} ELSE @,
                          !.renamedSince = IF rc = 0 THEN @ \ {name} ELSE @]

\* revoke_certificate(cn, serial) run by a handler, and its bookkeeping.
Revoke(op, cn, serial, tok, rev, renameOk) ==
    LET r == RevokeCertificate(fs, cn, serial, tok, rev, renameOk)
        ran == Len(r.cmds) = 2
    IN  /\ fs' = r.fs
        /\ caRevoked' = IF ran /\ rev.rc = 0 THEN caRevoked \cup {serial} ELSE caRevoked
        /\ last' = [NoCall EXCEPT !.op = op, !.cn = cn, !.serial = serial, !.pre = fs,
                        !.called = TRUE, !.ok = r.ok, !.msg = r.msg, !.cmds = r.cmds,
                        !.rename = r.rename]
        /\ hist' = [hist EXCEPT
               !.revokedSince = IF r.ok THEN @ \cup {cn} ELSE @,
               !.renamedSince = IF r.ok /\ r.rename = "ok" THEN @ \cup {cn} ELSE @]
        /\ UNCHANGED <<nextSerial, typed>>

\* "Revoke Certificate" clicked for an entry of the page's active list; exp
\* are the serials whose not_valid_after has passed when the page is built.
RevokePage(c, exp, tok, rev, renameOk) ==
    /\ c \in ActiveCerts(fs, exp)
    /\ Revoke("revoke_page", c.cn, c.serial, tok, rev, renameOk)

\* The same click in a browser session whose script run listed the
\* certificate before another session's handler changed the directory.
RevokeStale(cn, serial, tok, rev, renameOk) ==
    /\ <<cn, serial>> \in hist.certs
    /\ [cn |-> cn, serial |-> serial, status |-> "Active"] \notin ListCertificates(fs, {})
    /\ Revoke("revoke_stale", cn, serial, tok, rev, renameOk)

Issued == 1..(nextSerial - 1)

Next ==
    \/ \E name \in typed, rc \in {0, 1}, bundleOk \in BOOLEAN : IssueForm(name, rc, bundleOk)
    \/ \E exp \in {{}} \cup {{s} : s \in Issued} :
          \E c \in ActiveCerts(fs, exp), tok \in TokenOutcomes, renameOk \in BOOLEAN :
              \E rev \in RevokeOutcomes(c.serial) : RevokePage(c, exp, tok, rev, renameOk)
    \/ \E p \in hist.certs, tok \in TokenOutcomes, renameOk \in BOOLEAN :
          \E rev \in RevokeOutcomes(p[2]) : RevokeStale(p[1], p[2], tok, rev, renameOk)

\* The issue form alone, for the check of its validation.
NextForm ==
    \E name \in typed, rc \in {0, 1}, bundleOk \in BOOLEAN : IssueForm(name, rc, bundleOk)

Spec == Init /\ [][Next]_vars
SpecForm == InitForm /\ [][NextForm]_vars

\* ----------------------------------------------------------------- claims
RevokeOps == {"revoke_page", "revoke_stale"}
LastIsRevoke == last.op \in RevokeOps
\* The directory of the latest call's common name was moved to cn.revoked.
Moved ==
    /\ last.cn \notin DOMAIN fs
    /\ RevokedDir(last.cn) \in DOMAIN fs
    /\ fs[RevokedDir(last.cn)] = last.pre[last.cn]
ListedNames == {c.cn : c \in ListCertificates(fs, {})}
NamesWithCert == {p[1] : p \in hist.certs}
EndsWithSuffix(d) ==
    Len(d) >= Len(Suffix) /\ SubSeq(d, Len(d) - Len(Suffix) + 1, Len(d)) = Suffix

\* C1 as stated: whenever revoke_certificate returns True, CERTS_DIR/cn no
\* longer exists and CERTS_DIR/cn.revoked exists and holds the files that
\* were in CERTS_DIR/cn before the call.
C1_SuccessMeansRenamed == (LastIsRevoke /\ last.ok) => Moved

\* C1 amended: whenever revoke_certificate returns True and the rename did
\* not raise, cn is gone and cn.revoked holds the files cn held before the
\* call; when the rename raised, True is returned all the same, cn is left
\* as it was and no cn.revoked exists.
C1_RenamedUnlessRenameFails ==
    (LastIsRevoke /\ last.ok) =>
        IF last.rename = "ok" THEN Moved
        ELSE /\ last.cn \in DOMAIN fs
             /\ fs[last.cn] = last.pre[last.cn]
             /\ RevokedDir(last.cn) \notin DOMAIN fs

\* A successful revocation replaced a cn.revoked directory that was there.
C1_Witness ==
    /\ LastIsRevoke /\ last.ok /\ last.rename = "ok"
    /\ RevokedDir(last.cn) \in DOMAIN last.pre

C3_TokenThenRevoke ==
    LastIsRevoke =>
        LET c == last.cmds
        IN  /\ Len(c) <= 2
            /\ FileExists(last.pre, last.cn, CertFile(last.cn)) => Len(c) >= 1
            /\ Len(c) >= 1 => (c[1].cmd = "token" /\ c[1].subject = last.serial)
            /\ \A i \in 1..Len(c) :
                  c[i].cmd = "revoke" =>
                      /\ i = 2
                      /\ c[1].rc = 0
                      /\ c[i].subject = last.serial
                      /\ c[i].token = c[1].printed
            /\ (Len(c) >= 1 /\ c[1].rc # 0) => Len(c) = 1
            /\ (Len(c) >= 1 /\ c[1].rc = 0) => (Len(c) = 2 /\ c[2].cmd = "revoke")

\* Both commands of a revocation ran.
C3_Witness == LastIsRevoke /\ Len(last.cmds) = 2 /\ last.cmds[2].token = TokenText

\* Non-empty and made of letters, numbers, hyphens, underscores and dots.
Permitted(name) ==
    /\ name # <<>>
    /\ \A i \in 1..Len(name) : name[i] \in Letters \cup Digits \cup {"-", "_", "."}

\* C4: the issue form calls issue_certificate only for a permitted name; for
\* every other name an error is shown, no CLI command runs and the certs
\* directory is left as it was.
C4_OnlyPermittedNamesIssued ==
    last.op = "issue_form" =>
        /\ last.called => Permitted(last.cn)
        /\ ~Permitted(last.cn) =>
              /\ last.msg \in {"Please enter a site/device name",
                               "Name should only contain letters, numbers, hyphens, underscores, and dots"}
              /\ last.cmds = <<>>
              /\ fs = last.pre
        /\ \A d \in DOMAIN fs : \A i \in 1..Len(d) : d[i] # "/"

\* A name with a path separator was submitted and turned away.
C4_Witness ==
    /\ last.op = "issue_form" /\ ~last.called
    /\ \E i \in 1..Len(last.cn) : last.cn[i] = "/"

\* C5 as stated: once revoke_certificate(cn) returned True, cn is not listed
\* and not offered for revocation until an issue_certificate(cn) returns True.
C5_NotListedAfterSuccess ==
    \A cn \in hist.revokedSince :
        /\ cn \notin ListedNames
        /\ \A c \in ActiveCerts(fs, {}) : c.cn # cn

\* C5 amended: once revoke_certificate(cn) returned True and its rename did
\* not raise, cn is not listed and not offered for revocation until the CLI
\* command of an issue_certificate(cn) exits 0.
C5_NotListedAfterRename ==
    \A cn \in hist.renamedSince :
        /\ cn \notin ListedNames
        /\ \A c \in ActiveCerts(fs, {}) : c.cn # cn

\* A revoked name whose directory a failed issuance has made again.
C5_Witness == \E cn \in hist.renamedSince : cn \in DOMAIN fs

\* The stderr texts of the environment that contain "already revoked" in
\* some letter case.
MentionsAlreadyRevoked == {ErrAlready, ErrAlreadyCap}

\* C6: revoke_certificate returns True exactly when cn.crt existed, the
\* token command exited 0 and the revoke command exited 0 or said "already
\* revoked" in any letter case; the already-revoked case gets the clean-up
\* of a fresh revocation, every other outcome returns False with a message.
C6_SuccessExactly ==
    LastIsRevoke =>
        LET c == last.cmds
            good == /\ FileExists(last.pre, last.cn, CertFile(last.cn))
                    /\ Len(c) = 2
                    /\ c[1].rc = 0
                    /\ c[2].rc = 0 \/ c[2].stderr \in MentionsAlreadyRevoked
        IN  /\ last.ok <=> good
            /\ last.ok => /\ last.rename # "none"
                          /\ last.rename = "ok" => Moved
                          /\ last.msg # ""
            /\ ~last.ok => (last.msg # "" /\ last.rename = "none")

\* A revocation the CA answered with "Already Revoked" counted as success.
C6_Witness ==
    /\ LastIsRevoke /\ last.ok /\ Len(last.cmds) = 2
    /\ last.cmds[2].rc # 0 /\ last.cmds[2].stderr = ErrAlreadyCap
    /\ last.rename = "ok"

\* C7: a revoke_certificate that returns False leaves the certs directory
\* as it was, and runs no CLI command when cn.crt is not found.
C7_FailureChangesNothing ==
    (LastIsRevoke /\ ~last.ok) =>
        /\ fs = last.pre
        /\ ~FileExists(last.pre, last.cn, CertFile(last.cn)) => last.cmds = <<>>

\* The revoke command failed while a cn.revoked directory was there.
C7_Witness ==
    /\ LastIsRevoke /\ ~last.ok /\ Len(last.cmds) = 2
    /\ RevokedDir(last.cn) \in DOMAIN fs

\* A revocation for a certificate file that is no longer there.
C7_NotFoundReached == LastIsRevoke /\ last.msg = "Certificate file not found"
====
